---- MODULE Spec2Model ----
(***************************************************************************)
(* Model of element/element_api.py: the ElementApi client, its identifier  *)
(* cache (_id_to_address_mapping), the two resolution operations and the   *)
(* paginated request engine (_make_req).                                   *)
(*                                                                         *)
(* Python values are modelled as follows.                                  *)
(*   None / a value v      the sequences <<>> / <<v>>                      *)
(*   a str                 a sequence of one-character strings             *)
(*   a dict                a function; a missing key is outside its DOMAIN *)
(*   a list                a sequence                                      *)
(* A dict is kept without its insertion order.  The order only matters to  *)
(* _address_to_id_mapping when two ids carry the same address; see         *)
(* address_to_id_mapping below.                                            *)
(***************************************************************************)
EXTENDS Integers, Sequences, FiniteSets, TLC

VARIABLES id_to_address_mapping, call, req, clients, thr, sync, hist

vars == <<id_to_address_mapping, call, req, clients, thr, sync, hist>>

----------------------------------------------------------------------------
(* Bounds of the model.                                                    *)

\* the longest finite synthetic paginated source has MaxPages pages
MaxPages == 3

\* a paginated fetch is followed for at most MaxReq requests (an endless
\* source never stops handing out continuation tokens)
MaxReq == 4

\* a transport failure is injected at the FailHorizon-th request of an
\* operation at the latest
FailHorizon == 5

\* the probes of one device are counted up to ProbeCap
ProbeCap == 2

----------------------------------------------------------------------------
(* Python helpers.                                                         *)

None == <<>>

Some(v) == <<v>>

Range(f) == {f[k] : k \in DOMAIN f}

Min(a, b) == IF a <= b THEN a ELSE b

\* str.lower() on one character of the alphabet the addresses use
LowerChar(ch) ==
  CASE ch = "D" -> "d"
    [] ch = "Z" -> "z"
    [] OTHER    -> ch

\* str.lower()
Lower(s) == [k \in DOMAIN s |-> LowerChar(s[k])]

DigitVal(ch) ==
  CASE ch = "0" -> 0 [] ch = "1" -> 1 [] ch = "2" -> 2 [] ch = "3" -> 3
    [] ch = "4" -> 4 [] ch = "5" -> 5 [] ch = "6" -> 6 [] ch = "7" -> 7
    [] ch = "8" -> 8 [] ch = "9" -> 9 [] OTHER -> -1

RECURSIVE ParseDigits(_, _)
ParseDigits(s, acc) ==
  IF s = <<>> THEN acc ELSE ParseDigits(Tail(s), 10 * acc + DigitVal(Head(s)))

\* int(str) for an unsigned decimal literal: None stands for ValueError
ParseInt(s) ==
  IF s # <<>> /\ \A k \in DOMAIN s : DigitVal(s[k]) >= 0
  THEN Some(ParseDigits(s, 0))
  ELSE None

----------------------------------------------------------------------------
(* The remote API: static data, answered per route and cursor.             *)

D1 == <<"D", "1">>
D2 == <<"D", "2">>
D3 == <<"D", "3">>
D4 == <<"D", "4">>
D5 == <<"D", "5">>
ZZ == <<"Z", "Z">>

Folders == {"f1", "f2"}

\* the devices of a folder, in the order the device list returns them
FolderDevices(folder) ==
  IF folder = "f1" THEN <<D1, D2, D3>> ELSE <<D4>>

\* D5 is a device of no folder
DeviceNames == {D1, D2, D3, D4, D5}

\* fields.gerateinformation.seriennummer of a device record (a str); the
\* record of D4 does not carry the field, that of D5 holds no number
Seriennummer(name) ==
  CASE name = D1 -> Some(<<"1", "1">>)
    [] name = D2 -> Some(<<"2", "2">>)
    [] name = D3 -> Some(<<"3", "3">>)
    [] name = D5 -> Some(<<"5", "x">>)
    [] OTHER     -> None

\* how many readings the device has stored; D4 never sent any
NumReadings(name) ==
  CASE name = D1 -> 2
    [] name = D2 -> 1
    [] name = D3 -> 2
    [] OTHER     -> 0

\* data.device_id of every reading of a device: the serial number as an int
ReadingDeviceId(name) == ParseInt(Seriennummer(name)[1])[1]

\* the device list is served DevicePageSize devices per page
DevicePageSize == 2

\* the records of page n of the synthetic list source
PageBody(n) == <<2 * n - 1, 2 * n>>

\* routes: tags/{folder}/devices, devices/{address},
\* devices/by-name/{name}/readings, and a synthetic source of route.last
\* pages (0: endless) whose bodies are lists or single records
DevicesRoute(folder) == [kind |-> "devices", folder |-> folder]

DeviceRoute(address) == [kind |-> "device", address |-> address]

ReadingsRoute(name) == [kind |-> "readings", name |-> name]

SyntheticRoute(last, scalar) ==
  [kind |-> "synthetic", last |-> last, scalar |-> scalar]

\* does the server answer the route at all (otherwise HTTP 404)
Known(route) ==
  CASE route.kind = "devices"  -> route.folder \in Folders
    [] route.kind = "device"   ->
         \E d \in DeviceNames : Lower(d) = route.address
    [] route.kind = "readings" -> route.name \in DeviceNames
    [] OTHER                   -> TRUE

\* the response envelope for the route at cursor n (the first request has
\* cursor 1): whether body is a list, its records, and retrieve_after_id
ServerPage(route, n) ==
  CASE route.kind = "devices" ->
         LET names == FolderDevices(route.folder)
             lo    == (n - 1) * DevicePageSize + 1
             hi    == Min(n * DevicePageSize, Len(names))
         IN [isList |-> TRUE,
             items  |-> [k \in 1..(hi - lo + 1) |-> [name |-> names[lo + k - 1]]],
             token  |-> IF hi < Len(names) THEN Some(n + 1) ELSE None]
    [] route.kind = "device" ->
         LET d == CHOOSE x \in DeviceNames : Lower(x) = route.address
         IN [isList |-> FALSE,
             items  |-> <<[name |-> d, seriennummer |-> Seriennummer(d)]>>,
             token  |-> None]
    [] route.kind = "readings" ->
         [isList |-> TRUE,
          items  |-> IF n <= NumReadings(route.name)
                     THEN <<[data |-> [device_id |-> ReadingDeviceId(route.name)]]>>
                     ELSE <<>>,
          token  |-> IF n < NumReadings(route.name) THEN Some(n + 1) ELSE None]
    [] OTHER ->
         [isList |-> ~route.scalar,
          items  |-> IF route.scalar THEN <<0>> ELSE PageBody(n),
          token  |-> IF route.last = 0 \/ n < route.last
                     THEN Some(n + 1) ELSE None]

----------------------------------------------------------------------------
(* _make_req.  st is the frame of one call: pc, the page counter i, the    *)
(* number of requests issued, retrieve_after_id, output_data['body'], the  *)
(* outcome and the returned envelope's body (None until the return).       *)
(* failAt = j > 0 lets the j-th request of the call fail in transport.     *)

Raised(st, error, n) ==
  [st EXCEPT !.pc = "done", !.outcome = error, !.nreq = n]

Returned(st) ==
  [st EXCEPT !.pc = "done", !.outcome = "ok", !.ret = Some(st.items)]

\* the request before the loop
make_req_first(route, failAt) ==
  LET st0 == [pc |-> "loop", i |-> 1, nreq |-> 0, token |-> None,
              isList |-> TRUE, items |-> <<>>, outcome |-> "running",
              ret |-> None]
  IN IF failAt = 1 THEN Raised(st0, "URLError", 1)
     ELSE IF ~Known(route) THEN Raised(st0, "HTTPError", 1)
     ELSE LET p == ServerPage(route, 1)
          IN [st0 EXCEPT !.nreq = 1, !.token = p.token,
                         !.isList = p.isList, !.items = p.items]

\* mutant of page_cap_reached: the cap compared with > (one page too many)
page_cap_reached_late(max_pages, i) ==
  max_pages # None /\ max_pages[1] # 0 /\ i > max_pages[1]

\* mutant of page_cap_reached: the cap is never applied
page_cap_reached_never(max_pages, i) == FALSE

\* `if max_pages and i >= max_pages`
page_cap_reached(max_pages, i) ==
  max_pages # None /\ max_pages[1] # 0 /\ i >= max_pages[1]

\* mutant of body_is_list: the check of the body's shape left out
body_is_list_unchecked(st) == TRUE

\* `isinstance(output_data['body'], list)`
body_is_list(st) == st.isList

\* does the next evaluation of the loop issue a request
will_request(st, max_pages) ==
  st.token # None /\ ~page_cap_reached(max_pages, st.i)

\* mutant of make_req_iter: a request that failed in transport is sent again
make_req_iter_retry(st, route, max_pages, failAt) ==
  IF st.token = None THEN Returned(st)
  ELSE IF page_cap_reached(max_pages, st.i) THEN Returned(st)
  ELSE LET p == ServerPage(route, st.token[1])
           n == IF failAt = st.nreq + 1 THEN st.nreq + 2 ELSE st.nreq + 1
       IN IF body_is_list(st)
          THEN [st EXCEPT !.token = p.token, !.items = @ \o p.items,
                          !.i = @ + 1, !.nreq = n]
          ELSE Raised([st EXCEPT !.token = p.token], "TypeError", n)

\* one evaluation of `while retrieve_after_id:` and of its body
make_req_iter(st, route, max_pages, failAt) ==
  IF st.token = None THEN Returned(st)
  ELSE IF page_cap_reached(max_pages, st.i) THEN Returned(st)
  ELSE IF failAt = st.nreq + 1 THEN Raised(st, "URLError", st.nreq + 1)
  ELSE LET p == ServerPage(route, st.token[1])
       IN IF body_is_list(st)
          THEN [st EXCEPT !.token = p.token, !.items = @ \o p.items,
                          !.i = @ + 1, !.nreq = @ + 1]
          ELSE Raised([st EXCEPT !.token = p.token], "TypeError", st.nreq + 1)

RECURSIVE make_req_run(_, _, _, _)
make_req_run(st, route, max_pages, failAt) ==
  IF st.pc = "done" THEN st
  ELSE make_req_run(make_req_iter(st, route, max_pages, failAt),
                    route, max_pages, failAt)

\* a whole call of _make_req against a source that ends
make_req(route, max_pages, failAt) ==
  make_req_run(make_req_first(route, failAt), route, max_pages, failAt)

\* get_devices(folder): the whole device list, unbounded
get_devices(folder, failAt) == make_req(DevicesRoute(folder), None, failAt)

\* get_device(address): the address is lower-cased for the route
get_device(address, failAt) == make_req(DeviceRoute(Lower(address)), None, failAt)

\* get_readings(device_name, limit=1, max_pages=max_pages)
get_readings(device_name, max_pages, failAt) ==
  make_req(ReadingsRoute(device_name), max_pages, failAt)

----------------------------------------------------------------------------
(* The identifier cache: folder -> (decentlab id -> address).              *)

EmptyCache == [f \in {} |-> <<>>]

\* dict.get(key): None when the key is missing
Get(d, key) == IF key \in DOMAIN d THEN Some(d[key]) ELSE None

\* truth value of dict.get(key) when the values are dicts or strs: a missing
\* key, an empty dict and an empty str are all false
Truthy(opt) == opt # None /\ opt[1] # <<>>

\* every id some folder of the cache holds
DecentlabIdsOf(cache) == UNION {DOMAIN cache[f] : f \in DOMAIN cache}

\* mutant of SetItem: the write is lost
SetItem_dropped(cache, folder, decentlab_id, address) == cache

\* mutant of SetItem: the address is stored lower-cased, as get_device sends it
SetItem_lowered(cache, folder, decentlab_id, address) ==
  LET inner == IF folder \in DOMAIN cache THEN cache[folder] ELSE <<>>
      upd   == [k \in DOMAIN inner \cup {decentlab_id} |->
                  IF k = decentlab_id THEN Lower(address) ELSE inner[k]]
  IN [f \in DOMAIN cache \cup {folder} |-> IF f = folder THEN upd ELSE cache[f]]

\* self._id_to_address_mapping[folder][decentlab_id] = address, on a
\* defaultdict(dict): the folder's dict is created by the first write
SetItem(cache, folder, decentlab_id, address) ==
  LET inner == IF folder \in DOMAIN cache THEN cache[folder] ELSE <<>>
      upd   == [k \in DOMAIN inner \cup {decentlab_id} |->
                  IF k = decentlab_id THEN address ELSE inner[k]]
  IN [f \in DOMAIN cache \cup {folder} |-> IF f = folder THEN upd ELSE cache[f]]

\* mutant of address_to_id_mapping: the inverted dict keyed by the lower-cased
\* address
address_to_id_mapping_lowered(cache) ==
  [f \in DOMAIN cache |->
     [a \in {Lower(x) : x \in Range(cache[f])} |->
        CHOOSE k \in DOMAIN cache[f] :
          /\ Lower(cache[f][k]) = a
          /\ \A j \in DOMAIN cache[f] : Lower(cache[f][j]) = a => j <= k]]

\* the property _address_to_id_mapping: every folder's dict inverted.  Where
\* two ids carry one address Python keeps the id inserted last; the model has
\* no insertion order and keeps the greatest id.  The two agree on every
\* injective dict.
address_to_id_mapping(cache) ==
  [f \in DOMAIN cache |->
     [a \in Range(cache[f]) |->
        CHOOSE k \in DOMAIN cache[f] :
          /\ cache[f][k] = a
          /\ \A j \in DOMAIN cache[f] : cache[f][j] = a => j <= k]]

\* the result of one operation: the cache it leaves, how it ended, what it
\* returned, the requests it issued and the devices it probed, in order
Result(cache, outcome, ret, nreq, probes) ==
  [cache |-> cache, outcome |-> outcome, ret |-> ret, nreq |-> nreq,
   probes |-> probes]

\* mutant of cached_id: the lookup misses (the address looked up lower-cased
\* in a dict that holds none)
cached_id_miss(cache, address, folder) == None

\* mutant of cached_id: the address is looked up under every folder
cached_id_any_folder(cache, address, folder) ==
  LET ids == {k \in DecentlabIdsOf(cache) :
                \E f \in DOMAIN cache :
                  k \in DOMAIN cache[f] /\ cache[f][k] = address}
  IN IF ids = {} THEN None
     ELSE Some(CHOOSE k \in ids : \A j \in ids : j <= k)

\* the cache lookup of decentlab_id_from_address
cached_id(cache, address, folder) ==
  LET folder_mapping == Get(address_to_id_mapping(cache), folder)
  IN IF Truthy(folder_mapping) THEN Get(folder_mapping[1], address) ELSE None

\* mutant of decentlab_id_from_address_op: the folder's dict is taken from
\* the defaultdict (and so created) before the device is fetched
decentlab_id_from_address_op_touch(cache, address, folder, failAt) ==
  LET decentlab_id == cached_id(cache, address, folder)
      touched == [f \in DOMAIN cache \cup {folder} |->
                    IF f \in DOMAIN cache THEN cache[f] ELSE <<>>]
  IN IF decentlab_id # None
     THEN Result(cache, "ok", decentlab_id, 0, <<>>)
     ELSE LET r == get_device(address, failAt)
          IN IF r.outcome # "ok"
             THEN Result(touched, r.outcome, None, r.nreq, <<>>)
             ELSE LET seriennummer == r.ret[1][1].seriennummer
                      id == IF seriennummer = None THEN None
                            ELSE ParseInt(seriennummer[1])
                  IN IF seriennummer = None
                     THEN Result(touched, "KeyError", None, r.nreq, <<>>)
                     ELSE IF id = None
                     THEN Result(touched, "ValueError", None, r.nreq, <<>>)
                     ELSE Result(SetItem(cache, folder, id[1], address),
                                 "ok", id, r.nreq, <<>>)

decentlab_id_from_address_op(cache, address, folder, failAt) ==
  LET decentlab_id == cached_id(cache, address, folder)
  IN IF decentlab_id # None
     THEN Result(cache, "ok", decentlab_id, 0, <<>>)
     ELSE LET r == get_device(address, failAt)
          IN IF r.outcome # "ok"
             THEN Result(cache, r.outcome, None, r.nreq, <<>>)
             ELSE LET seriennummer == r.ret[1][1].seriennummer
                      id == IF seriennummer = None THEN None
                            ELSE ParseInt(seriennummer[1])
                  IN IF seriennummer = None
                     THEN Result(cache, "KeyError", None, r.nreq, <<>>)
                     ELSE IF id = None
                     THEN Result(cache, "ValueError", None, r.nreq, <<>>)
                     ELSE Result(SetItem(cache, folder, id[1], address),
                                 "ok", id, r.nreq, <<>>)

\* mutant of cached_address: the lookup misses (the id looked up as a str)
cached_address_miss(cache, decentlab_id, folder) == None

\* the cache lookup of address_from_decentlab_id
cached_address(cache, decentlab_id, folder) ==
  LET folder_mapping == Get(cache, folder)
  IN IF Truthy(folder_mapping) /\ Truthy(Get(folder_mapping[1], decentlab_id))
     THEN Some(cache[folder][decentlab_id])
     ELSE None

\* mutant of already_requested: the address is looked for in lower case
already_requested_lowered(cache, folder, curr_device_addr) ==
  /\ Truthy(Get(cache, folder))
  /\ Lower(curr_device_addr) \in Range(cache[folder])

\* mutant of already_requested: no device is taken for probed before
already_requested_never(cache, folder, curr_device_addr) == FALSE

\* `curr_folder and curr_device_addr in ...[folder].values()`
already_requested(cache, folder, curr_device_addr) ==
  /\ Truthy(Get(cache, folder))
  /\ curr_device_addr \in Range(cache[folder])

\* mutant of is_requested_id: an int compared with a str, never equal
is_requested_id_never(curr_decentlab_id, decentlab_id) == FALSE

\* `if curr_decentlab_id == decentlab_id`
is_requested_id(curr_decentlab_id, decentlab_id) ==
  curr_decentlab_id = decentlab_id

\* the for loop of address_from_decentlab_id from the k-th device on; nreq
\* requests were issued and the devices in probes were probed before it
RECURSIVE probe_devices(_, _, _, _, _, _, _, _)
probe_devices(cache, devices, k, decentlab_id, folder, nreq, probes, failAt) ==
  IF k > Len(devices)
  THEN Result(cache, "ValueError", None, nreq, probes)
  ELSE
    LET curr_device_addr == devices[k].name
    IN IF already_requested(cache, folder, curr_device_addr)
       THEN probe_devices(cache, devices, k + 1, decentlab_id, folder,
                          nreq, probes, failAt)
       ELSE
         LET resp   == get_readings(curr_device_addr, Some(1),
                                    IF failAt > nreq THEN failAt - nreq ELSE 0)
             n      == nreq + resp.nreq
             probed == Append(probes, curr_device_addr)
         IN IF resp.outcome # "ok"
            THEN Result(cache, resp.outcome, None, n, probed)
            ELSE IF resp.ret[1] = <<>>
            THEN Result(cache, "IndexError", None, n, probed)
            ELSE
              LET curr_decentlab_id == resp.ret[1][1].data.device_id
                  c == SetItem(cache, folder, curr_decentlab_id, curr_device_addr)
              IN IF is_requested_id(curr_decentlab_id, decentlab_id)
                 THEN Result(c, "ok", Some(curr_device_addr), n, probed)
                 ELSE probe_devices(c, devices, k + 1, decentlab_id, folder,
                                    n, probed, failAt)

\* mutant of address_from_decentlab_id_op: what the scan found is written to
\* the cache only when the scan ends with the match
address_from_decentlab_id_op_rollback(cache, decentlab_id, folder, failAt) ==
  LET hit == cached_address(cache, decentlab_id, folder)
  IN IF hit # None
     THEN Result(cache, "ok", hit, 0, <<>>)
     ELSE LET devices == get_devices(folder, failAt)
          IN IF devices.outcome # "ok"
             THEN Result(cache, devices.outcome, None, devices.nreq, <<>>)
             ELSE LET r == probe_devices(cache, devices.ret[1], 1, decentlab_id,
                                         folder, devices.nreq, <<>>, failAt)
                  IN IF r.outcome = "ok" THEN r
                     ELSE Result(cache, r.outcome, r.ret, r.nreq, r.probes)

address_from_decentlab_id_op(cache, decentlab_id, folder, failAt) ==
  LET hit == cached_address(cache, decentlab_id, folder)
  IN IF hit # None
     THEN Result(cache, "ok", hit, 0, <<>>)
     ELSE LET devices == get_devices(folder, failAt)
          IN IF devices.outcome # "ok"
             THEN Result(cache, devices.outcome, None, devices.nreq, <<>>)
             ELSE probe_devices(cache, devices.ret[1], 1, decentlab_id, folder,
                                devices.nreq, <<>>, failAt)

----------------------------------------------------------------------------
(* The state machine.  One client, used by one thread: call records the    *)
(* identifier operation that ran last (its arguments, the cache before it, *)
(* its result), req the frame of the paginated fetch in progress or last   *)
(* finished.  Spec runs the identifier operations, PagingSpec the          *)
(* paginated fetches against the synthetic sources; a fetch does not touch *)
(* the cache, so the two are explored apart.                               *)

\* the addresses a caller passes: the device names as listed, one of them in
\* lower case, and the address of no device
Addresses == DeviceNames \cup {Lower(D1), ZZ}

\* the decentlab ids a caller asks for: the devices' ids and a foreign one
DecentlabIds == {11, 22, 33, 99}

\* max_pages: None or an int
MaxPagesArgs == {None} \cup {Some(m) : m \in -1..MaxPages}

\* the synthetic sources: 1..MaxPages pages or endless, list or single record
SyntheticRoutes ==
  {SyntheticRoute(last, scalar) : last \in 0..MaxPages, scalar \in BOOLEAN}

NoCall ==
  [op |-> "none", folder |-> "", address |-> None, decentlab_id |-> None,
   pre |-> EmptyCache, outcome |-> "none", ret |-> None, nreq |-> 0,
   probes |-> <<>>]

NoReq ==
  [route |-> SyntheticRoute(1, FALSE), max_pages |-> None, failAt |-> 0,
   st |-> [pc |-> "idle", i |-> 0, nreq |-> 0, token |-> None,
           isList |-> TRUE, items |-> <<>>, outcome |-> "none", ret |-> None]]

\* no second client, no concurrent callers, no probe counted
NoClients == [inst |-> <<>>, eq |-> None]

NoThreads == <<>>

NoSync == [use |-> FALSE, holder |-> None]

NoHist == [probed |-> <<>>, clean |-> <<>>]

Init ==
  /\ id_to_address_mapping = EmptyCache
  /\ call = NoCall
  /\ req = NoReq
  /\ clients = NoClients
  /\ thr = NoThreads
  /\ sync = NoSync
  /\ hist = NoHist

\* no paginated fetch is under way (or the model stopped following it)
Idle == req.st.pc # "loop" \/ req.st.nreq >= MaxReq

decentlab_id_from_address ==
  /\ \E address \in Addresses, folder \in Folders, failAt \in 0..1 :
       \E r \in {decentlab_id_from_address_op(id_to_address_mapping, address,
                                                folder, failAt)} :
          /\ id_to_address_mapping' = r.cache
          /\ call' = [op |-> "decentlab_id_from_address", folder |-> folder,
                      address |-> Some(address), decentlab_id |-> None,
                      pre |-> id_to_address_mapping, outcome |-> r.outcome,
                      ret |-> r.ret, nreq |-> r.nreq, probes |-> r.probes]
  /\ UNCHANGED <<req, clients, thr, sync, hist>>

address_from_decentlab_id ==
  /\ \E decentlab_id \in DecentlabIds, folder \in Folders,
        failAt \in 0..FailHorizon :
       \E r \in {address_from_decentlab_id_op(id_to_address_mapping,
                                                decentlab_id, folder, failAt)} :
          /\ id_to_address_mapping' = r.cache
          /\ call' = [op |-> "address_from_decentlab_id", folder |-> folder,
                      address |-> None, decentlab_id |-> Some(decentlab_id),
                      pre |-> id_to_address_mapping, outcome |-> r.outcome,
                      ret |-> r.ret, nreq |-> r.nreq, probes |-> r.probes]
  /\ UNCHANGED <<req, clients, thr, sync, hist>>

\* _make_req is entered: the first request
make_req_start ==
  /\ Idle
  /\ \E route \in SyntheticRoutes, max_pages \in MaxPagesArgs,
        failAt \in 0..MaxPages :
       req' = [route |-> route, max_pages |-> max_pages, failAt |-> failAt,
               st |-> make_req_first(route, failAt)]
  /\ UNCHANGED <<id_to_address_mapping, call, clients, thr, sync, hist>>

\* one evaluation of the while loop
make_req_loop ==
  /\ req.st.pc = "loop"
  /\ ~will_request(req.st, req.max_pages) \/ req.st.nreq < MaxReq
  /\ req' = [req EXCEPT !.st = make_req_iter(req.st, req.route,
                                             req.max_pages, req.failAt)]
  /\ UNCHANGED <<id_to_address_mapping, call, clients, thr, sync, hist>>

Next ==
  \/ decentlab_id_from_address
  \/ address_from_decentlab_id

Spec == Init /\ [][Next]_vars

NextPaging ==
  \/ make_req_start
  \/ make_req_loop

PagingSpec == Init /\ [][NextPaging]_vars

\* _make_req is sequential code: a call that entered its loop goes on running
PagingFairSpec == PagingSpec /\ WF_vars(make_req_loop)

----------------------------------------------------------------------------
(* Properties of the paginated fetch (PagingSpec).                         *)

RECURSIVE ConcatPages(_)
\* the bodies of pages 1..m of the synthetic list source, in order
ConcatPages(m) == IF m = 0 THEN <<>> ELSE ConcatPages(m - 1) \o PageBody(m)

\* a finished fetch in which no request failed in transport
FetchDone == req.st.pc = "done" /\ req.st.outcome # "URLError"

\* C1: against a list source of k pages (tokens on pages 1..k-1), a fetch
\* with max_pages = None ends after exactly k requests with the bodies of
\* pages 1..k in order; with 1 <= max_pages = m < k it ends after exactly m
\* requests with the bodies of pages 1..m, the token of page m not followed.
C1_Pagination ==
  (FetchDone /\ ~req.route.scalar /\ req.route.last >= 1) =>
    LET k == req.route.last
        m == req.max_pages
    IN /\ m = None =>
            /\ req.st.outcome = "ok"
            /\ req.st.nreq = k
            /\ req.st.ret = Some(ConcatPages(k))
       /\ (m # None /\ 1 <= m[1] /\ m[1] < k) =>
            /\ req.st.outcome = "ok"
            /\ req.st.nreq = m[1]
            /\ req.st.ret = Some(ConcatPages(m[1]))
            /\ req.st.token # None

C1_Witness ==
  /\ req.st.pc = "done"
  /\ req.route = SyntheticRoute(3, FALSE)
  /\ req.max_pages = Some(2)
  /\ req.st.nreq = 2
  /\ req.st.ret = Some(<<1, 2, 3, 4>>)
  /\ req.st.token # None

\* C8: when the first response is a single record and carries a token, and
\* max_pages lets the fetch continue (None, or 2 and more), the fetch raises
\* TypeError at its first continuation, the second request, and returns
\* nothing.
C8_ScalarGuard ==
  (/\ FetchDone
   /\ req.route.scalar
   /\ req.route.last # 1
   /\ (req.max_pages = None \/ req.max_pages[1] >= 2)) =>
    /\ req.st.outcome = "TypeError"
    /\ req.st.nreq = 2
    /\ req.st.ret = None

C8_Witness ==
  /\ req.st.pc = "done"
  /\ req.route = SyntheticRoute(2, TRUE)
  /\ req.max_pages = None
  /\ req.st.outcome = "TypeError"
  /\ req.st.nreq = 2
  /\ req.st.ret = None

\* C9: after n pages were fetched, a further request is issued if and only if
\* the latest response carries a token and max_pages is None or n < max_pages,
\* for every max_pages, 0 included.
C9_ContinuationRule ==
  [][(req.st.pc = "loop" /\ req.st.nreq < MaxReq) =>
       ((req'.st.nreq = req.st.nreq + 1) <=>
          (/\ req.st.token # None
           /\ (req.max_pages = None \/ req.st.nreq < req.max_pages[1])))]_vars

\* C11: a request that fails in transport is not sent again and its error is
\* not swallowed: the fetch ends there with that error and returns nothing,
\* not even the pages merged before; every page is requested once.
C11_NoRetry ==
  /\ req.st.pc = "loop" => req.st.nreq = req.st.i
  /\ (req.st.pc = "done" /\ req.st.outcome = "ok") => req.st.nreq = req.st.i
  /\ req.st.outcome \notin {"none", "running", "ok"} => req.st.ret = None
  /\ (req.failAt > 0 /\ req.st.nreq >= req.failAt) =>
       /\ req.st.pc = "done"
       /\ req.st.outcome = "URLError"
       /\ req.st.nreq = req.failAt
       /\ req.st.ret = None

\* the third request fails after two pages were merged
C11_Witness ==
  /\ req.route = SyntheticRoute(3, FALSE)
  /\ req.max_pages = None
  /\ req.failAt = 3
  /\ req.st.pc = "done"
  /\ req.st.outcome = "URLError"
  /\ req.st.nreq = 3
  /\ req.st.items = <<1, 2, 3, 4>>
  /\ req.st.ret = None

\* max_pages is an int of 1 or more
PositiveCap == req.max_pages # None /\ req.max_pages[1] >= 1

\* C15: a fetch ends whenever the source ends (some response carries no
\* token); with max_pages = m >= 1 it ends, after at most m requests, even
\* against a source that hands out a token with every response.
C15_Termination ==
  /\ [](PositiveCap => req.st.nreq <= req.max_pages[1])
  /\ []((req.st.pc = "loop" /\ (req.route.last # 0 \/ PositiveCap))
         => <>(req.st.pc = "done"))

C15_Witness ==
  /\ req.route = SyntheticRoute(0, FALSE)
  /\ req.max_pages = Some(2)
  /\ req.st.pc = "done"
  /\ req.st.outcome = "ok"
  /\ req.st.nreq = 2
  /\ req.st.token # None

----------------------------------------------------------------------------
(* Properties of the identifier cache (Spec).                              *)

FWD == "decentlab_id_from_address"

REV == "address_from_decentlab_id"

\* the device reports the id in its readings
Reports(name, decentlab_id) ==
  NumReadings(name) > 0 /\ ReadingDeviceId(name) = decentlab_id

\* the requests the device list of a folder takes
DeviceListPages(folder) ==
  (Len(FolderDevices(folder)) + DevicePageSize - 1) \div DevicePageSize

\* C2: after decentlab_id_from_address(addr, folder) returned X, an
\* address_from_decentlab_id(X, folder) that follows at once returns addr and
\* issues no request.
C2_ForwardThenReverse ==
  [][(/\ call.op = FWD
      /\ call.outcome = "ok"
      /\ call'.op = REV
      /\ call'.folder = call.folder
      /\ call'.decentlab_id = call.ret) =>
       (/\ call'.outcome = "ok"
        /\ call'.ret = call.address
        /\ call'.nreq = 0)]_vars

\* the lower-case address can only have come from decentlab_id_from_address
C2_Witness ==
  /\ call.op = REV
  /\ call.pre = ("f1" :> (11 :> Lower(D1)))
  /\ call.decentlab_id = Some(11)
  /\ call.ret = Some(Lower(D1))
  /\ call.nreq = 0

\* C3: on a client that holds nothing for the folder, address_from_decentlab_id
\* probes the devices in list order, each once, up to the first one that
\* reports the target, returns that one and caches exactly the probed ones;
\* for the ids 11, 22, 33 of D1, D2, D3 and target 22 that is 2 probes and a
\* cache of D1 and D2 without D3.
C3_ProbeShortCircuit ==
  (/\ call.op = REV
   /\ call.folder \notin DOMAIN call.pre
   /\ call.outcome # "URLError") =>
    LET names  == FolderDevices(call.folder)
        target == call.decentlab_id[1]
        hits   == {k \in 1..Len(names) :
                     /\ Reports(names[k], target)
                     /\ \A h \in 1..k : NumReadings(names[h]) > 0}
    IN hits # {} =>
         LET j == CHOOSE k \in hits : \A h \in hits : k <= h
         IN /\ call.outcome = "ok"
            /\ call.ret = Some(names[j])
            /\ call.probes = SubSeq(names, 1, j)
            /\ call.nreq = DeviceListPages(call.folder) + j
            /\ DOMAIN id_to_address_mapping = DOMAIN call.pre \cup {call.folder}
            /\ Range(id_to_address_mapping[call.folder]) = {names[h] : h \in 1..j}
            /\ \A h \in 1..j :
                 id_to_address_mapping[call.folder][ReadingDeviceId(names[h])]
                   = names[h]
            /\ (call.folder = "f1" /\ target = 22) =>
                 /\ call.probes = <<D1, D2>>
                 /\ id_to_address_mapping["f1"] = (11 :> D1 @@ 22 :> D2)

C3_Witness ==
  /\ call.op = REV
  /\ call.pre = EmptyCache
  /\ call.folder = "f1"
  /\ call.decentlab_id = Some(22)
  /\ call.ret = Some(D2)
  /\ call.probes = <<D1, D2>>
  /\ id_to_address_mapping = ("f1" :> (11 :> D1 @@ 22 :> D2))

\* C4: address_from_decentlab_id for an id that no device of the folder
\* reports raises ValueError (every request and probe succeeding), after it
\* probed each device that was not cached once, and never returns an address.
C4_UnresolvableId ==
  (/\ call.op = REV
   /\ \A k \in DOMAIN FolderDevices(call.folder) :
        ~Reports(FolderDevices(call.folder)[k], call.decentlab_id[1])
   /\ call.outcome \notin {"URLError", "IndexError"}) =>
    /\ call.outcome = "ValueError"
    /\ call.ret = None
    /\ call.probes =
         SelectSeq(FolderDevices(call.folder),
                   LAMBDA a : ~already_requested(call.pre, call.folder, a))

\* C5: once (folder, id, address) is cached, decentlab_id_from_address(address,
\* folder) and address_from_decentlab_id(id, folder) return the cached values,
\* issue no request and leave the cache as it was.
C5_IdempotentCacheReads ==
  /\ (/\ call.op = FWD
      /\ call.folder \in DOMAIN call.pre
      /\ call.address[1] \in Range(call.pre[call.folder])) =>
       /\ call.outcome = "ok"
       /\ call.nreq = 0
       /\ id_to_address_mapping = call.pre
       /\ call.ret[1] \in DOMAIN call.pre[call.folder]
       /\ call.pre[call.folder][call.ret[1]] = call.address[1]
  /\ (/\ call.op = REV
      /\ call.folder \in DOMAIN call.pre
      /\ call.decentlab_id[1] \in DOMAIN call.pre[call.folder]) =>
       /\ call.outcome = "ok"
       /\ call.nreq = 0
       /\ id_to_address_mapping = call.pre
       /\ call.ret = Some(call.pre[call.folder][call.decentlab_id[1]])

C5_Witness ==
  /\ call.op = REV
  /\ call.folder = "f1"
  /\ call.decentlab_id = Some(33)
  /\ call.pre = ("f1" :> (11 :> D1 @@ 22 :> D2 @@ 33 :> D3))
  /\ id_to_address_mapping = call.pre
  /\ call.ret = Some(D3)
  /\ call.nreq = 0

\* C6: an entry of the cache stays: after any operation every (folder, id)
\* that mapped to an address still maps to that address.
C6_Additive ==
  \A f \in DOMAIN call.pre : \A id \in DOMAIN call.pre[f] :
    /\ f \in DOMAIN id_to_address_mapping
    /\ id \in DOMAIN id_to_address_mapping[f]
    /\ id_to_address_mapping[f][id] = call.pre[f][id]

\* C7: in every folder the cached id-to-address dict is injective, and the
\* derived _address_to_id_mapping has as many entries and inverts it.
C7_Injective ==
  \A f \in DOMAIN id_to_address_mapping :
    LET fwd == id_to_address_mapping[f]
        inv == address_to_id_mapping(id_to_address_mapping)
    IN /\ \A i, j \in DOMAIN fwd : fwd[i] = fwd[j] => i = j
       /\ DOMAIN inv = DOMAIN id_to_address_mapping
       /\ DOMAIN inv[f] = Range(fwd)
       /\ Cardinality(DOMAIN inv[f]) = Cardinality(DOMAIN fwd)
       /\ \A i \in DOMAIN fwd : inv[f][fwd[i]] = i

\* a folder filled by both operations: D1 by address, D2 and D3 by probes
C7_Witness ==
  /\ "f1" \in DOMAIN id_to_address_mapping
  /\ id_to_address_mapping["f1"] = (11 :> Lower(D1) @@ 22 :> D2 @@ 33 :> D3)
  /\ address_to_id_mapping(id_to_address_mapping)["f1"]
       = (Lower(D1) :> 11 @@ D2 :> 22 @@ D3 :> 33)

\* C10: every call that no transport failure hit gives the result, value or
\* error, that the same call gives on a client with an empty cache.
C10_PureOptimization ==
  /\ (call.op = FWD /\ call.outcome # "URLError") =>
       LET fresh == decentlab_id_from_address_op(EmptyCache, call.address[1],
                                                 call.folder, 0)
       IN call.outcome = fresh.outcome /\ call.ret = fresh.ret
  /\ (call.op = REV /\ call.outcome # "URLError") =>
       LET fresh == address_from_decentlab_id_op(EmptyCache,
                                                 call.decentlab_id[1],
                                                 call.folder, 0)
       IN call.outcome = fresh.outcome /\ call.ret = fresh.ret

\* the devices the server finds for an address (it gets the address in lower
\* case)
DevicesAt(address) == {d \in DeviceNames : Lower(d) = Lower(address)}

\* the address is no key of the folder's reverse view before the call
ForwardMiss ==
  /\ call.op = FWD
  /\ \/ call.folder \notin DOMAIN call.pre
     \/ call.address[1] \notin Range(call.pre[call.folder])

\* C20: a decentlab_id_from_address that misses the cache and whose device
\* fetch fails, or whose device record lacks the serial number or holds one
\* that is no integer, ends with the error and leaves the cache exactly as it
\* was: no entry added, no dict created for a folder unknown before.
C20_FailedForwardKeepsCache ==
  ForwardMiss =>
    /\ call.outcome # "ok" => id_to_address_mapping = call.pre
    /\ call.outcome # "ok" => call.ret = None /\ call.nreq = 1
    /\ \A d \in DevicesAt(call.address[1]) :
         /\ Seriennummer(d) = None => call.outcome \in {"URLError", "KeyError"}
         /\ (Seriennummer(d) # None /\ ParseInt(Seriennummer(d)[1]) = None)
              => call.outcome \in {"URLError", "ValueError"}
    /\ DevicesAt(call.address[1]) = {} => call.outcome \in {"URLError", "HTTPError"}
    /\ call.outcome = "ok" => call.ret # None

\* the serial number of D5 is no integer; the folder f2 was never written
C20_Witness ==
  /\ ForwardMiss
  /\ call.address = Some(D5)
  /\ call.folder = "f2"
  /\ call.outcome = "ValueError"
  /\ call.pre # EmptyCache
  /\ "f2" \notin DOMAIN id_to_address_mapping
  /\ id_to_address_mapping = call.pre

\* C18: after address_from_decentlab_id(X, folder) returned a, a
\* decentlab_id_from_address(a, folder) that follows at once returns X and
\* issues no request, whatever the cache held before.
C18_ReverseThenForward ==
  [][(/\ call.op = REV
      /\ call.outcome = "ok"
      /\ call'.op = FWD
      /\ call'.folder = call.folder
      /\ call'.address = call.ret) =>
       (/\ call'.nreq = 0
        /\ call'.outcome = "ok"
        /\ call'.ret = call.decentlab_id
        /\ id_to_address_mapping' = id_to_address_mapping)]_vars

\* D3 as the scan stored it, looked up by address without a request
C18_Witness ==
  /\ call.op = FWD
  /\ call.folder = "f1"
  /\ call.address = Some(D3)
  /\ call.ret = Some(33)
  /\ call.nreq = 0
  /\ call.pre = ("f1" :> (11 :> D1 @@ 22 :> D2 @@ 33 :> D3))

\* the cache cut down to one folder
OnlyFolder(cache, folder) == [f \in DOMAIN cache \cap {folder} |-> cache[f]]

\* the call's result is one the operation has on the cache cut down to the
\* call's folder
SameOnOwnFolder ==
  LET own == OnlyFolder(call.pre, call.folder)
      rs  == IF call.op = FWD
             THEN {decentlab_id_from_address_op(own, call.address[1],
                                                call.folder, j) : j \in 0..1}
             ELSE {address_from_decentlab_id_op(own, call.decentlab_id[1],
                                                call.folder, j) : j \in 0..FailHorizon}
  IN \E r \in rs :
       /\ r.outcome = call.outcome
       /\ r.ret = call.ret
       /\ r.nreq = call.nreq
       /\ r.probes = call.probes
       /\ r.cache = OnlyFolder(id_to_address_mapping, call.folder)

\* C16: an operation called with folder f leaves the dict of every other
\* folder as it was, takes no cache hit from an id or address cached under
\* another folder only, and does what it would do if f's dict were the whole
\* cache.
C16_FolderIsolation ==
  call.op # "none" =>
    /\ (call.op = FWD /\ (\/ call.folder \notin DOMAIN call.pre
                           \/ call.address[1] \notin Range(call.pre[call.folder])))
         => call.nreq >= 1
    /\ (call.op = REV /\ (\/ call.folder \notin DOMAIN call.pre
                           \/ call.decentlab_id[1] \notin DOMAIN call.pre[call.folder]))
         => call.nreq >= 1
    /\ DOMAIN id_to_address_mapping \subseteq DOMAIN call.pre \cup {call.folder}
    /\ \A f \in DOMAIN call.pre \ {call.folder} :
         f \in DOMAIN id_to_address_mapping /\ id_to_address_mapping[f] = call.pre[f]
    /\ SameOnOwnFolder

\* D1 is cached under f1 and asked for under f2: a request is issued and f1
\* is left alone
C16_Witness ==
  /\ call.op = FWD
  /\ call.folder = "f2"
  /\ call.address = Some(D1)
  /\ call.pre = ("f1" :> (11 :> D1 @@ 22 :> D2))
  /\ call.nreq = 1
  /\ id_to_address_mapping = ("f1" :> (11 :> D1 @@ 22 :> D2) @@ "f2" :> (11 :> D1))

\* the address is a value of the folder's dict
CachedIn(cache, folder, address) ==
  folder \in DOMAIN cache /\ address \in Range(cache[folder])

\* the call is an address_from_decentlab_id that misses the cache
ReverseMiss ==
  /\ call.op = REV
  /\ \/ call.folder \notin DOMAIN call.pre
     \/ call.decentlab_id[1] \notin DOMAIN call.pre[call.folder]

\* C13: a scan does not probe a device whose address is a value of the
\* folder's dict; with every request succeeding it probes, in list order, the
\* devices not cached up to and including the first of them that reports the
\* target (all of them if none does), one request each, after one fetch of
\* the device list.
C13_SkipCached ==
  ReverseMiss =>
    LET names    == FolderDevices(call.folder)
        fresh(a) == ~CachedIn(call.pre, call.folder, a)
        hits     == {k \in 1..Len(names) :
                       fresh(names[k]) /\ Reports(names[k], call.decentlab_id[1])}
        j        == IF hits = {} THEN Len(names)
                    ELSE CHOOSE k \in hits : \A h \in hits : k <= h
        expected == SelectSeq(SubSeq(names, 1, j), fresh)
    IN /\ \A k \in 1..Len(call.probes) : fresh(call.probes[k])
       /\ call.outcome \in {"ok", "ValueError"} =>
            /\ call.probes = expected
            /\ call.nreq = DeviceListPages(call.folder) + Len(expected)
            /\ call.outcome = "ok" <=> hits # {}

\* D1 is cached: the scan for 33 probes D2 and D3 only
C13_Witness ==
  /\ ReverseMiss
  /\ call.folder = "f1"
  /\ call.pre = ("f1" :> (11 :> D1))
  /\ call.decentlab_id = Some(33)
  /\ call.outcome = "ok"
  /\ call.probes = <<D2, D3>>
  /\ call.nreq = 4

\* the devices the call probed with success: all it probed, but for the last
\* one when the call ended in that probe's failure
ProbedWithSuccess ==
  IF call.outcome \in {"ok", "ValueError"} THEN call.probes
  ELSE SubSeq(call.probes, 1, Len(call.probes) - 1)

\* C14: however a scan ends (match, failure of the j-th probe, ValueError)
\* every device it probed with success is cached under its id, so that an
\* address_from_decentlab_id for that id returns its address without a
\* request; and an id once cached under a folder stays cached under it.
C14_PartialScan ==
  /\ [](call.op = REV =>
          \A k \in 1..Len(ProbedWithSuccess) :
            LET a  == ProbedWithSuccess[k]
                id == ReadingDeviceId(a)
            IN /\ call.folder \in DOMAIN id_to_address_mapping
               /\ id \in DOMAIN id_to_address_mapping[call.folder]
               /\ id_to_address_mapping[call.folder][id] = a
               /\ \A j \in 0..1 :
                    address_from_decentlab_id_op(id_to_address_mapping, id,
                                                 call.folder, j)
                      = Result(id_to_address_mapping, "ok", Some(a), 0, <<>>))
  /\ [][\A f \in DOMAIN id_to_address_mapping :
          /\ f \in DOMAIN id_to_address_mapping'
          /\ DOMAIN id_to_address_mapping[f] \subseteq DOMAIN id_to_address_mapping'[f]]_vars

\* the probe of D3 fails in transport; D1 and D2 stay cached
C14_Witness ==
  /\ call.op = REV
  /\ call.pre = EmptyCache
  /\ call.decentlab_id = Some(33)
  /\ call.outcome = "URLError"
  /\ call.probes = <<D1, D2, D3>>
  /\ id_to_address_mapping = ("f1" :> (11 :> D1 @@ 22 :> D2))

----------------------------------------------------------------------------
(* Two clients side by side (EqSpec).  clients.inst holds, per client, the *)
(* arguments it was built with, its two attributes and its own cache;      *)
(* clients.eq the last comparison made and its result.                     *)

RECURSIVE LStrip(_, _)
LStrip(s, ch) == IF s # <<>> /\ Head(s) = ch THEN LStrip(Tail(s), ch) ELSE s

RECURSIVE RStrip(_, _)
RStrip(s, ch) ==
  IF s # <<>> /\ s[Len(s)] = ch THEN RStrip(SubSeq(s, 1, Len(s) - 1), ch) ELSE s

\* str.strip(ch)
Strip(s, ch) == RStrip(LStrip(s, ch), ch)

\* ElementApi(api_location, api_key)
ElementApi(api_location, api_key) ==
  [cls |-> "ElementApi",
   args |-> <<api_location, api_key>>,
   api_location |-> Strip(api_location, "/"),
   api_key |-> api_key,
   id_to_address_mapping |-> EmptyCache]

\* an object that is no ElementApi but has the two attributes
Impostor(api_location, api_key) ==
  [cls |-> "object",
   args |-> <<api_location, api_key>>,
   api_location |-> api_location,
   api_key |-> api_key,
   id_to_address_mapping |-> EmptyCache]

\* mutant of eq: the caches are compared as well
eq_with_caches(self, value) ==
  IF value.cls = self.cls
  THEN /\ self.api_key = value.api_key
       /\ self.api_location = value.api_location
       /\ self.id_to_address_mapping = value.id_to_address_mapping
  ELSE FALSE

\* __eq__
eq(self, value) ==
  IF value.cls = self.cls
  THEN self.api_key = value.api_key /\ self.api_location = value.api_location
  ELSE FALSE

ClientNames == {"a", "b"}

Locations == {<<"u">>, <<"u", "/">>, <<"v">>}

ApiKeys == {<<"k", "1">>, <<"k", "2">>}

EqInit ==
  /\ id_to_address_mapping = EmptyCache
  /\ call = NoCall
  /\ req = NoReq
  /\ \E la \in Locations, lb \in Locations, ka \in ApiKeys, kb \in ApiKeys :
       clients = [inst |-> [c \in ClientNames \cup {"o"} |->
                              CASE c = "a" -> ElementApi(la, ka)
                                [] c = "b" -> ElementApi(lb, kb)
                                [] OTHER   -> Impostor(Strip(la, "/"), ka)],
                  eq |-> None]
  /\ thr = NoThreads
  /\ sync = NoSync
  /\ hist = NoHist

\* one of the clients resolves an address and so fills its cache
client_decentlab_id_from_address ==
  /\ \E c \in ClientNames, address \in {D1, Lower(D1)} :
       \E r \in {decentlab_id_from_address_op(
                    clients.inst[c].id_to_address_mapping, address, "f1", 0)} :
          clients' = [clients EXCEPT !.inst[c].id_to_address_mapping = r.cache]
  /\ UNCHANGED <<id_to_address_mapping, call, req, thr, sync, hist>>

\* one of the clients resolves an id and so fills its cache
client_address_from_decentlab_id ==
  /\ \E c \in ClientNames :
       \E r \in {address_from_decentlab_id_op(
                    clients.inst[c].id_to_address_mapping, 22, "f1", 0)} :
          clients' = [clients EXCEPT !.inst[c].id_to_address_mapping = r.cache]
  /\ UNCHANGED <<id_to_address_mapping, call, req, thr, sync, hist>>

\* self == value
client_eq ==
  /\ \E self \in ClientNames, value \in DOMAIN clients.inst :
       clients' = [clients EXCEPT
                     !.eq = Some([self |-> self, value |-> value,
                                  caches |-> <<clients.inst[self].id_to_address_mapping,
                                               clients.inst[value].id_to_address_mapping>>,
                                  result |-> eq(clients.inst[self],
                                                clients.inst[value])])]
  /\ UNCHANGED <<id_to_address_mapping, call, req, thr, sync, hist>>

NextEq ==
  \/ client_decentlab_id_from_address
  \/ client_address_from_decentlab_id
  \/ client_eq

EqSpec == EqInit /\ [][NextEq]_vars

\* C12: whether two clients compare equal depends on their api_location and
\* api_key alone: built with the same location and key they compare equal,
\* with a different api_location or api_key they never do, whatever the
\* caches of the two hold at the comparison.
C12_EqIgnoresCaches ==
  clients.eq # None =>
    LET e     == clients.eq[1]
        self  == clients.inst[e.self]
        value == clients.inst[e.value]
    IN IF e.value \in ClientNames
       THEN /\ self.args = value.args => e.result
            /\ e.result <=> (/\ self.api_location = value.api_location
                             /\ self.api_key = value.api_key)
            /\ e.result <=> (/\ Strip(self.args[1], "/") = Strip(value.args[1], "/")
                             /\ self.args[2] = value.args[2])
       ELSE ~e.result

\* equal although one cache is empty and the other is not
C12_Witness ==
  /\ clients.eq # None
  /\ clients.eq[1].self = "a"
  /\ clients.eq[1].value = "b"
  /\ clients.eq[1].result
  /\ clients.eq[1].caches = <<EmptyCache, "f1" :> (11 :> D1 @@ 22 :> D2)>>

----------------------------------------------------------------------------
(* The probes of a client's lifetime (ScanSpec): one client, one thread,   *)
(* address_from_decentlab_id calls only.  hist.probed counts the probe     *)
(* requests issued per device, hist.clean tells per folder whether every   *)
(* probe so far returned a reading.                                        *)

ScanInit ==
  /\ id_to_address_mapping = EmptyCache
  /\ call = NoCall
  /\ req = NoReq
  /\ clients = NoClients
  /\ thr = NoThreads
  /\ sync = NoSync
  /\ hist = [probed |-> [d \in DeviceNames |-> 0],
             clean  |-> [f \in Folders |-> TRUE]]

\* how often the call probed the device
Probes(probes, d) == Cardinality({k \in 1..Len(probes) : probes[k] = d})

address_from_decentlab_id_counted ==
  /\ \E decentlab_id \in DecentlabIds, folder \in Folders,
        failAt \in 0..FailHorizon :
       \E r \in {address_from_decentlab_id_op(id_to_address_mapping,
                                                decentlab_id, folder, failAt)} :
          /\ \A d \in DeviceNames :
               hist.probed[d] + Probes(r.probes, d) <= ProbeCap
          /\ id_to_address_mapping' = r.cache
          /\ call' = [op |-> "address_from_decentlab_id", folder |-> folder,
                      address |-> None, decentlab_id |-> Some(decentlab_id),
                      pre |-> id_to_address_mapping, outcome |-> r.outcome,
                      ret |-> r.ret, nreq |-> r.nreq, probes |-> r.probes]
          /\ hist' = [probed |-> [d \in DeviceNames |->
                                    hist.probed[d] + Probes(r.probes, d)],
                      clean  |-> [hist.clean EXCEPT ![folder] =
                                    @ /\ (\/ r.probes = <<>>
                                          \/ r.outcome \in {"ok", "ValueError"})]]
  /\ UNCHANGED <<req, clients, thr, sync>>

NextScan == address_from_decentlab_id_counted

ScanSpec == ScanInit /\ [][NextScan]_vars

\* C19: as long as every probe of the address_from_decentlab_id calls made
\* for a folder returned a reading, no device of the folder was probed more
\* than once since the client was built.
C19_ProbeAtMostOnce ==
  \A f \in Folders :
    hist.clean[f] =>
      \A k \in 1..Len(FolderDevices(f)) : hist.probed[FolderDevices(f)[k]] <= 1

\* a later scan for an id of no device probes D3 only: D1 and D2 were probed
\* by an earlier call
C19_Witness ==
  /\ hist.clean["f1"]
  /\ hist.probed[D1] = 1 /\ hist.probed[D2] = 1 /\ hist.probed[D3] = 1
  /\ call.folder = "f1"
  /\ call.pre = ("f1" :> (11 :> D1 @@ 22 :> D2))
  /\ call.decentlab_id = Some(99)
  /\ call.outcome = "ValueError"
  /\ call.probes = <<D3>>

----------------------------------------------------------------------------
(* Two callers on one client (RaceSpec).  Each thread runs one             *)
(* address_from_decentlab_id on the folder f1, a step being one network    *)
(* request or one read or write of the cache; thr[t] is the thread's       *)
(* frame.  The source holds no lock.  sync.use tells whether the callers   *)
(* wrap each call in one exclusive lock of their own, sync.holder who      *)
(* holds it.                                                               *)

Threads == {"t1", "t2"}

RaceFolder == "f1"

IdleFrame ==
  [pc |-> "idle", decentlab_id |-> None, devices |-> <<>>, k |-> 0,
   curr_decentlab_id |-> None, probes |-> <<>>, outcome |-> "none",
   ret |-> None]

RaceInit ==
  /\ id_to_address_mapping = EmptyCache
  /\ call = NoCall
  /\ req = NoReq
  /\ clients = NoClients
  /\ thr = [t \in Threads |-> IdleFrame]
  /\ \E use \in BOOLEAN : sync = [use |-> use, holder |-> None]
  /\ hist = NoHist

\* the lock after the call of the thread returned or raised
Released == IF sync.use THEN [sync EXCEPT !.holder = None] ELSE sync

\* the call is entered, under the lock when one is used
thread_call(t) ==
  /\ thr[t].pc = "idle"
  /\ sync.use => sync.holder = None
  /\ \E decentlab_id \in DecentlabIds :
       thr' = [thr EXCEPT ![t].pc = "lookup",
                          ![t].decentlab_id = Some(decentlab_id)]
  /\ sync' = IF sync.use THEN [sync EXCEPT !.holder = Some(t)] ELSE sync
  /\ UNCHANGED <<id_to_address_mapping, call, req, clients, hist>>

\* the cache lookup
thread_lookup(t) ==
  /\ thr[t].pc = "lookup"
  /\ LET hit == cached_address(id_to_address_mapping, thr[t].decentlab_id[1],
                                RaceFolder)
     IN IF hit # None
        THEN /\ thr' = [thr EXCEPT ![t].pc = "done", ![t].outcome = "ok",
                                   ![t].ret = hit]
             /\ sync' = Released
        ELSE /\ thr' = [thr EXCEPT ![t].pc = "list"]
             /\ sync' = sync
  /\ UNCHANGED <<id_to_address_mapping, call, req, clients, hist>>

\* devices = self.get_devices(folder=folder)
thread_get_devices(t) ==
  /\ thr[t].pc = "list"
  /\ thr' = [thr EXCEPT ![t].pc = "check",
                        ![t].devices = get_devices(RaceFolder, 0).ret[1],
                        ![t].k = 1]
  /\ UNCHANGED <<id_to_address_mapping, call, req, clients, sync, hist>>

\* the head of the for loop and the check for a device probed before
thread_check(t) ==
  /\ thr[t].pc = "check"
  /\ IF thr[t].k > Len(thr[t].devices)
     THEN /\ thr' = [thr EXCEPT ![t].pc = "done", ![t].outcome = "ValueError"]
          /\ sync' = Released
     ELSE /\ thr' = IF already_requested(id_to_address_mapping, RaceFolder,
                                         thr[t].devices[thr[t].k].name)
                    THEN [thr EXCEPT ![t].k = @ + 1]
                    ELSE [thr EXCEPT ![t].pc = "probe"]
          /\ sync' = sync
  /\ UNCHANGED <<id_to_address_mapping, call, req, clients, hist>>

\* the probe: one reading of the device is requested
thread_probe(t) ==
  /\ thr[t].pc = "probe"
  /\ LET curr_device_addr == thr[t].devices[thr[t].k].name
         resp   == get_readings(curr_device_addr, Some(1), 0)
         probed == Append(thr[t].probes, curr_device_addr)
     IN IF resp.ret[1] = <<>>
        THEN /\ thr' = [thr EXCEPT ![t].pc = "done", ![t].probes = probed,
                                   ![t].outcome = "IndexError"]
             /\ sync' = Released
        ELSE /\ thr' = [thr EXCEPT ![t].pc = "store", ![t].probes = probed,
                                   ![t].curr_decentlab_id =
                                     Some(resp.ret[1][1].data.device_id)]
             /\ sync' = sync
  /\ UNCHANGED <<id_to_address_mapping, call, req, clients, hist>>

\* the write to the cache and the comparison with the id asked for
thread_store(t) ==
  /\ thr[t].pc = "store"
  /\ LET curr_device_addr == thr[t].devices[thr[t].k].name
     IN /\ id_to_address_mapping' =
             SetItem(id_to_address_mapping, RaceFolder,
                     thr[t].curr_decentlab_id[1], curr_device_addr)
        /\ IF is_requested_id(thr[t].curr_decentlab_id[1], thr[t].decentlab_id[1])
           THEN /\ thr' = [thr EXCEPT ![t].pc = "done", ![t].outcome = "ok",
                                      ![t].ret = Some(curr_device_addr)]
                /\ sync' = Released
           ELSE /\ thr' = [thr EXCEPT ![t].pc = "check", ![t].k = @ + 1]
                /\ sync' = sync
  /\ UNCHANGED <<call, req, clients, hist>>

NextRace ==
  \E t \in Threads :
    \/ thread_call(t)
    \/ thread_lookup(t)
    \/ thread_get_devices(t)
    \/ thread_check(t)
    \/ thread_probe(t)
    \/ thread_store(t)

RaceSpec == RaceInit /\ [][NextRace]_vars

\* a device both callers sent a probe for
ProbedByBoth ==
  \E d \in DeviceNames :
    \A t \in Threads : \E k \in 1..Len(thr[t].probes) : thr[t].probes[k] = d

====
